---- MODULE Spec2Model ----
(***************************************************************************)
(* Model of src/code.ino: an ESP32 sketch that associates to Wi-Fi once,   *)
(* then forever reads two DHT11 sensors and a microphone, drives three     *)
(* LEDs from fixed thresholds, prints the reading and POSTs it as JSON.    *)
(*                                                                         *)
(* A float is a record [nan, v]: v is the value in hundredths, nan marks   *)
(* IEEE NaN (what DHTesp returns for a failed read).  The float nearest to *)
(* 25.6 is 25.600000381..., which is >= the double literal 25.6, and the   *)
(* next float below is < 25.6, so on floats `t >= 25.6` is `v >= 2560`.    *)
(* A String is a sequence of one-character strings.                        *)
(***************************************************************************)
EXTENDS Integers, Sequences, FiniteSets, TLC

VARIABLES
    pc,             \* position of the single thread of control
    wifiBegun,      \* WiFi.begin() has been called
    wifiStatus,     \* what WiFi.status() returns now
    serialOpen,     \* Serial.begin() done
    serial,         \* lines printed since the start of setup / of this loop() iteration
    dots,           \* "." printed in that span (one per poll of connectToWiFi)
    lastDelay,      \* argument of the last delay() call, 0 before the first
    dhtSetup,       \* pins on which a DHTesp instance was set up
    pinModes,       \* pinMode of the three LED pins
    pinLevel,       \* level written to the three LED pins
    temperature, humidity, soundValue,      \* the globals of lines 25-27
    payload,        \* local String of sendDataToPythonServer
    httpResponseCode,                       \* local int of sendDataToPythonServer
    httpOpen,       \* HTTP requests begun and not yet ended
    \* observation of the run (what was called, in which cycle)
    connectCalls,   \* calls of connectToWiFi
    connectReturned,\* connectToWiFi has returned
    fresh,          \* fields of the Reading written in this loop() iteration
    sameAsPrev,     \* this iteration's Reading equals the previous iteration's
    everActuated,   \* controlLEDs has run at least once
    linkAtGuard,    \* result of the guard at line 71 in this iteration
    opens, posts, closes, getStrings,       \* HTTP calls of this iteration
    posted          \* body of the POST of this iteration

vars == <<pc, wifiBegun, wifiStatus, serialOpen, serial, dots, lastDelay,
          dhtSetup, pinModes, pinLevel, temperature, humidity, soundValue,
          payload, httpResponseCode, httpOpen, connectCalls, connectReturned,
          fresh, sameAsPrev, everActuated, linkAtGuard, opens, posts, closes,
          getStrings, posted>>

(* ---------------------------- bounds ---------------------------------- *)
MaxPolls == 3       \* the dots counter saturates here; the poll loop does not stop
MaxOpen == 2        \* the open-request counter saturates here

(* ------------------------ program constants --------------------------- *)
TEMP_SENSOR_PIN == 4
HUM_SENSOR_PIN == 5
TEMP_LED_PIN == 18
HUM_LED_PIN == 32
SOUND_LED_PIN == 33
TempThreshold == 2560       \* 25.6, in hundredths
HumThreshold == 4000        \* 40.0, in hundredths
SoundThreshold == 200
PollDelayMs == 500
CycleDelayMs == 15000

LedPins == {TEMP_LED_PIN, HUM_LED_PIN, SOUND_LED_PIN}

(* ------------------------------ floats -------------------------------- *)
F(x) == [nan |-> FALSE, v |-> x]
NaN == [nan |-> TRUE, v |-> 0]

\* IEEE comparisons: any comparison with NaN is false
FGe(f, th) == (~f.nan) /\ f.v >= th
FGt(f, th) == (~f.nan) /\ f.v > th

\* values the sensors can deliver
TempValues == {NaN, F(-26), F(2555), F(2560), F(2600)}
HumValues == {NaN, F(3500), F(4000), F(4004), F(9996)}
SoundValues == {150, 199, 200, 4095}
ResponseCodes == {-11, -1, 0, 200, 404}
ResponseBodies == {<<>>, <<"o", "k">>}

(* ------------------------------ Strings ------------------------------- *)
DigitChars == <<"0", "1", "2", "3", "4", "5", "6", "7", "8", "9">>
DigitChar(d) == DigitChars[d + 1]

RECURSIVE NatStr(_)
NatStr(n) == IF n < 10 THEN <<DigitChar(n)>>
             ELSE NatStr(n \div 10) \o <<DigitChar(n % 10)>>

\* String(int): decimal, with a leading '-' for negatives
StringInt(n) == IF n < 0 THEN <<"-">> \o NatStr(-n) ELSE NatStr(n)

\* String(float, 1): dtostrf(value, 3, 1, buf).  NaN prints as "nan"; else the
\* sign is split off, 0.05 is added, and the integer digits, '.', and one
\* fraction digit are emitted (width 3 never pads).
StringFloat1(f) ==
    IF f.nan THEN <<"n", "a", "n">>
    ELSE LET neg == f.v < 0
             m == (IF neg THEN -f.v ELSE f.v) + 5
         IN  (IF neg THEN <<"-">> ELSE <<>>)
             \o NatStr(m \div 100) \o <<".">> \o <<DigitChar((m % 100) \div 10)>>

Q == "\""
KeyTemperature == <<Q, "t", "e", "m", "p", "e", "r", "a", "t", "u", "r", "e", Q, ":">>
KeyHumidity == <<Q, "h", "u", "m", "i", "d", "i", "t", "y", Q, ":">>
KeySound == <<Q, "s", "o", "u", "n", "d", Q, ":">>

\* lines 75-79
BuildPayload(t, h, s) ==
    <<"{">> \o KeyTemperature \o StringFloat1(t) \o <<",">>
            \o KeyHumidity \o StringFloat1(h) \o <<",">>
            \o KeySound \o StringInt(s)
            \o <<"}">>

(* --------------------------- Threshold Actuator ----------------------- *)
Level(b) == IF b THEN "HIGH" ELSE "LOW"

\* faulty variant: strict comparison at the temperature threshold
TempLedStrict(t) == Level(FGt(t, TempThreshold))
TempLed(t) == Level(FGe(t, TempThreshold))
HumLed(h) == Level(FGt(h, HumThreshold))
\* faulty variant: a loud reading toggles the LED instead of setting it
SoundLedToggles(s) == IF s >= SoundThreshold
                      THEN (IF pinLevel[SOUND_LED_PIN] = "HIGH" THEN "LOW" ELSE "HIGH")
                      ELSE "LOW"
SoundLed(s) == Level(s >= SoundThreshold)

(* ------------------------------ Init ---------------------------------- *)
Init ==
    /\ pc = "setup"
    /\ wifiBegun = FALSE
    /\ wifiStatus = "WL_IDLE_STATUS"
    /\ serialOpen = FALSE
    /\ serial = <<>>
    /\ dots = 0
    /\ lastDelay = 0
    /\ dhtSetup = {}
    /\ pinModes = [p \in LedPins |-> "INPUT"]
    /\ pinLevel = [p \in LedPins |-> "UNDRIVEN"]
    /\ temperature = F(0)
    /\ humidity = F(0)
    /\ soundValue = 0
    /\ payload = <<>>
    /\ httpResponseCode = 0
    /\ httpOpen = 0
    /\ connectCalls = 0
    /\ connectReturned = FALSE
    /\ fresh = {}
    /\ sameAsPrev = FALSE
    /\ everActuated = FALSE
    /\ linkAtGuard = "none"
    /\ opens = 0
    /\ posts = 0
    /\ closes = 0
    /\ getStrings = 0
    /\ posted = <<>>

radioVars == <<wifiBegun, wifiStatus>>
ioVars == <<serialOpen, dots, lastDelay>>
pinVars == <<dhtSetup, pinModes, pinLevel>>
readingVars == <<temperature, humidity, soundValue>>
httpVars == <<payload, httpResponseCode, httpOpen, opens, posts, closes, getStrings, posted>>
connVars == <<connectCalls, connectReturned>>
cycleVars == <<fresh, sameAsPrev, everActuated, linkAtGuard>>

(* ------------------------------ setup --------------------------------- *)
\* faulty variant: setup initialises the sensors and pins before connecting
SerialBeginSensorsFirst ==
    /\ pc = "setup"
    /\ serialOpen' = TRUE
    /\ pc' = "initializeDHT"
    /\ UNCHANGED <<radioVars, serial, dots, lastDelay, pinVars, readingVars,
                   httpVars, connVars, cycleVars>>

\* line 103
SerialBegin ==
    /\ pc = "setup"
    /\ serialOpen' = TRUE
    /\ pc' = "connectToWiFi"
    /\ UNCHANGED <<radioVars, serial, dots, lastDelay, pinVars, readingVars,
                   httpVars, connVars, cycleVars>>

\* lines 104, 58-59: the call, the banner and WiFi.begin
ConnectBegin ==
    /\ pc = "connectToWiFi"
    /\ connectCalls' = connectCalls + 1
    /\ serial' = Append(serial, <<"Connecting to Wi-Fi">>)
    /\ wifiBegun' = TRUE
    /\ pc' = "wifi_poll"
    /\ UNCHANGED <<wifiStatus, ioVars, pinVars, readingVars, httpVars,
                   connectReturned, cycleVars>>

\* faulty variant: the poll loop gives up after two polls
ConnectPollGivesUp ==
    /\ pc = "wifi_poll"
    /\ wifiStatus # "WL_CONNECTED"
    /\ lastDelay' = PollDelayMs
    /\ dots' = IF dots < MaxPolls THEN dots + 1 ELSE dots
    /\ pc' = IF dots >= 2 THEN "initializeDHT" ELSE "wifi_poll"
    /\ UNCHANGED <<radioVars, serialOpen, serial, pinVars, readingVars,
                   httpVars, connVars, cycleVars>>

\* lines 60-63: one iteration of the poll loop
ConnectPoll ==
    /\ pc = "wifi_poll"
    /\ wifiStatus # "WL_CONNECTED"
    /\ lastDelay' = PollDelayMs
    /\ dots' = IF dots < MaxPolls THEN dots + 1 ELSE dots
    /\ pc' = "wifi_poll"
    /\ UNCHANGED <<radioVars, serialOpen, serial, pinVars, readingVars,
                   httpVars, connVars, cycleVars>>

\* lines 60, 64-67: the loop condition fails, the address is printed, return
ConnectReturn ==
    /\ pc = "wifi_poll"
    /\ wifiStatus = "WL_CONNECTED"
    /\ serial' = serial \o << <<"Wi-Fi connected!">>, <<"IP Address: ", <<"i", "p">> >> >>
    /\ connectReturned' = TRUE
    /\ pc' = "initializeDHT"
    /\ UNCHANGED <<radioVars, ioVars, pinVars, readingVars, httpVars,
                   connectCalls, cycleVars>>

\* lines 105, 30-34
InitializeDHT ==
    /\ pc = "initializeDHT"
    /\ dhtSetup' = {TEMP_SENSOR_PIN, HUM_SENSOR_PIN}
    /\ serial' = Append(serial, <<"DHT11 Sensors Initialized.">>)
    /\ pc' = "pinMode"
    /\ UNCHANGED <<radioVars, ioVars, pinModes, pinLevel, readingVars,
                   httpVars, connVars, cycleVars>>

\* lines 107-109
PinModes ==
    /\ pc = "pinMode"
    /\ pinModes' = [p \in LedPins |-> "OUTPUT"]
    /\ pc' = "readDHTData"
    /\ UNCHANGED <<radioVars, ioVars, serial, dhtSetup, pinLevel, readingVars,
                   httpVars, connVars, cycleVars>>

(* ------------------------------- loop --------------------------------- *)
\* Print::print(float, 1): same digits as String(float, 1), "nan" for NaN
PrintFloat1(f) == StringFloat1(f)

\* lines 114, 37-42: first statement of loop(); both DHT reads overwrite the globals
ReadDHTData ==
    /\ pc = "readDHTData"
    /\ \E t \in TempValues, h \in HumValues :
          /\ temperature' = t
          /\ humidity' = h
          /\ sameAsPrev' = (everActuated /\ t = temperature /\ h = humidity)
    /\ fresh' = {"temperature", "humidity"}
    /\ serial' = <<>>
    /\ dots' = 0
    /\ linkAtGuard' = "none"
    /\ opens' = 0
    /\ posts' = 0
    /\ closes' = 0
    /\ getStrings' = 0
    /\ posted' = <<>>
    /\ pc' = "readSoundLevel"
    /\ UNCHANGED <<radioVars, serialOpen, lastDelay, pinVars, soundValue, payload,
                   httpResponseCode, httpOpen, connVars, everActuated>>

\* lines 115, 45-47
ReadSoundLevel ==
    /\ pc = "readSoundLevel"
    /\ \E s \in SoundValues :
          /\ soundValue' = s
          /\ sameAsPrev' = (sameAsPrev /\ s = soundValue)
    /\ fresh' = fresh \cup {"sound"}
    /\ pc' = "controlLEDs"
    /\ UNCHANGED <<radioVars, ioVars, serial, pinVars, temperature, humidity,
                   httpVars, connVars, everActuated, linkAtGuard>>

\* lines 116, 50-54
ControlLEDs ==
    /\ pc = "controlLEDs"
    /\ pinLevel' = [pinLevel EXCEPT ![TEMP_LED_PIN] = TempLed(temperature),
                                    ![HUM_LED_PIN] = HumLed(humidity),
                                    ![SOUND_LED_PIN] = SoundLed(soundValue)]
    /\ everActuated' = TRUE
    /\ pc' = "log"
    /\ UNCHANGED <<radioVars, ioVars, serial, dhtSetup, pinModes, readingVars,
                   httpVars, connVars, fresh, sameAsPrev, linkAtGuard>>

\* lines 118-124 (the degree sign of line 121 is left out of the text)
LogReading ==
    /\ pc = "log"
    /\ serial' = Append(serial, <<"Temperature: ", PrintFloat1(temperature),
                                  " C || Humidity: ", PrintFloat1(humidity),
                                  " % || Sound Level: ", StringInt(soundValue)>>)
    /\ pc' = "sendData"
    /\ UNCHANGED <<radioVars, ioVars, pinVars, readingVars, httpVars,
                   connVars, cycleVars>>

\* lines 127, 71-83: guard true; the payload is built, the request is begun
SendBegin ==
    /\ pc = "sendData"
    /\ wifiStatus = "WL_CONNECTED"
    /\ linkAtGuard' = "connected"
    /\ payload' = BuildPayload(temperature, humidity, soundValue)
    /\ httpOpen' = IF httpOpen < MaxOpen THEN httpOpen + 1 ELSE httpOpen
    /\ opens' = opens + 1
    /\ pc' = "POST"
    /\ UNCHANGED <<radioVars, ioVars, serial, pinVars, readingVars,
                   httpResponseCode, posts, closes, getStrings, posted,
                   connVars, fresh, sameAsPrev, everActuated>>

\* faulty variant: the guard is ignored and the request is begun with the link down
SendSkipAttempts ==
    /\ pc = "sendData"
    /\ wifiStatus # "WL_CONNECTED"
    /\ linkAtGuard' = "disconnected"
    /\ payload' = BuildPayload(temperature, humidity, soundValue)
    /\ httpOpen' = IF httpOpen < MaxOpen THEN httpOpen + 1 ELSE httpOpen
    /\ opens' = opens + 1
    /\ pc' = "POST"
    /\ UNCHANGED <<radioVars, ioVars, serial, pinVars, readingVars,
                   httpResponseCode, posts, closes, getStrings, posted,
                   connVars, fresh, sameAsPrev, everActuated>>

\* lines 127, 71, 97-100: guard false; the skip message, return
SendSkip ==
    /\ pc = "sendData"
    /\ wifiStatus # "WL_CONNECTED"
    /\ linkAtGuard' = "disconnected"
    /\ serial' = Append(serial, <<"Wi-Fi disconnected. Cannot send data.">>)
    /\ pc' = "delay"
    /\ UNCHANGED <<radioVars, ioVars, pinVars, readingVars, httpVars,
                   connVars, fresh, sameAsPrev, everActuated>>

\* faulty variant: a failed POST is issued again
HttpPostRetries ==
    /\ pc = "POST"
    /\ \E code \in ResponseCodes :
          /\ httpResponseCode' = code
          /\ pc' = IF code <= 0 /\ posts = 0 THEN "POST" ELSE "response"
    /\ posts' = posts + 1
    /\ posted' = payload
    /\ UNCHANGED <<radioVars, ioVars, serial, pinVars, readingVars, payload,
                   httpOpen, opens, closes, getStrings, connVars, cycleVars>>

\* line 84
HttpPost ==
    /\ pc = "POST"
    /\ \E code \in ResponseCodes : httpResponseCode' = code
    /\ posts' = posts + 1
    /\ posted' = payload
    /\ pc' = "response"
    /\ UNCHANGED <<radioVars, ioVars, serial, pinVars, readingVars, payload,
                   httpOpen, opens, closes, getStrings, connVars, cycleVars>>

\* faulty variant: a non-positive response code halts the sketch
HandleResponseHalts ==
    /\ pc = "response"
    /\ IF httpResponseCode > 0
       THEN /\ \E body \in ResponseBodies :
                  serial' = Append(serial, <<"Response: ", body>>)
            /\ getStrings' = getStrings + 1
            /\ pc' = "http_end"
       ELSE /\ serial' = Append(serial, <<"Error sending data: ",
                                          StringInt(httpResponseCode)>>)
            /\ getStrings' = getStrings
            /\ pc' = "halted"
    /\ UNCHANGED <<radioVars, ioVars, pinVars, readingVars, payload,
                   httpResponseCode, httpOpen, opens, posts, closes, posted,
                   connVars, cycleVars>>

\* lines 87-94
HandleResponse ==
    /\ pc = "response"
    /\ IF httpResponseCode > 0
       THEN /\ \E body \in ResponseBodies :
                  serial' = Append(serial, <<"Response: ", body>>)
            /\ getStrings' = getStrings + 1
       ELSE /\ serial' = Append(serial, <<"Error sending data: ",
                                          StringInt(httpResponseCode)>>)
            /\ getStrings' = getStrings
    /\ pc' = "http_end"
    /\ UNCHANGED <<radioVars, ioVars, pinVars, readingVars, payload,
                   httpResponseCode, httpOpen, opens, posts, closes, posted,
                   connVars, cycleVars>>

\* faulty variant: http.end() is called on the success path only
HttpEndOnSuccessOnly ==
    /\ pc = "http_end"
    /\ httpOpen' = IF httpResponseCode > 0 /\ httpOpen > 0 THEN httpOpen - 1 ELSE httpOpen
    /\ closes' = IF httpResponseCode > 0 THEN closes + 1 ELSE closes
    /\ payload' = <<>>
    /\ pc' = "delay"
    /\ UNCHANGED <<radioVars, ioVars, serial, pinVars, readingVars,
                   httpResponseCode, opens, posts, getStrings, posted,
                   connVars, cycleVars>>

\* lines 96-97: http.end(), the locals go out of scope, return
HttpEnd ==
    /\ pc = "http_end"
    /\ httpOpen' = IF httpOpen > 0 THEN httpOpen - 1 ELSE 0
    /\ closes' = closes + 1
    /\ payload' = <<>>
    /\ pc' = "delay"
    /\ UNCHANGED <<radioVars, ioVars, serial, pinVars, readingVars,
                   httpResponseCode, opens, posts, getStrings, posted,
                   connVars, cycleVars>>

\* faulty variant: the next iteration starts at controlLEDs, without reading the sensors
DelaySkipsSense ==
    /\ pc = "delay"
    /\ lastDelay' = CycleDelayMs
    /\ fresh' = {}
    /\ pc' = "controlLEDs"
    /\ UNCHANGED <<radioVars, serialOpen, serial, dots, pinVars, readingVars,
                   httpVars, connVars, sameAsPrev, everActuated, linkAtGuard>>

\* lines 129-130: delay(15000), loop() returns and is called again
Delay ==
    /\ pc = "delay"
    /\ lastDelay' = CycleDelayMs
    /\ fresh' = {}
    /\ pc' = "readDHTData"
    /\ UNCHANGED <<radioVars, serialOpen, serial, dots, pinVars, readingVars,
                   httpVars, connVars, sameAsPrev, everActuated, linkAtGuard>>

(* ----------------------------- the radio ------------------------------ *)
\* WiFi.status() (lines 60, 71) starts to report WL_CONNECTED
RadioAssociate ==
    /\ wifiBegun
    /\ wifiStatus # "WL_CONNECTED"
    /\ wifiStatus' = "WL_CONNECTED"
    /\ UNCHANGED <<pc, wifiBegun, ioVars, serial, pinVars, readingVars,
                   httpVars, connVars, cycleVars>>

\* WiFi.status() (lines 60, 71) stops reporting WL_CONNECTED
RadioLose ==
    /\ wifiStatus = "WL_CONNECTED"
    /\ wifiStatus' = "WL_DISCONNECTED"
    /\ UNCHANGED <<pc, wifiBegun, ioVars, serial, pinVars, readingVars,
                   httpVars, connVars, cycleVars>>

(* --------------------------- specification ---------------------------- *)
Setup == SerialBegin \/ ConnectBegin \/ ConnectPoll \/ ConnectReturn
            \/ InitializeDHT \/ PinModes

Loop == ReadDHTData \/ ReadSoundLevel \/ ControlLEDs \/ LogReading
            \/ SendBegin \/ SendSkip \/ HttpPost \/ HandleResponse
            \/ HttpEnd \/ Delay

Program == Setup \/ Loop

Next == Program \/ RadioAssociate \/ RadioLose

Spec == Init /\ [][Next]_vars

\* the single thread keeps running: every statement that is enabled is executed
LiveSpec == Spec /\ WF_vars(Program)

(* ======================= properties of the run ======================== *)
Reading == <<temperature, humidity, soundValue>>
AllFields == {"temperature", "humidity", "sound"}
ReporterPcs == {"sendData", "POST", "response", "http_end"}
AfterActuate == {"log", "delay"} \cup ReporterPcs
LoopPcs == {"readDHTData", "readSoundLevel", "controlLEDs"} \cup AfterActuate
SetupPcs == {"setup", "connectToWiFi", "wifi_poll", "initializeDHT", "pinMode"}
LastLine == IF Len(serial) = 0 THEN <<>> ELSE serial[Len(serial)]

Stage(p) == CASE p \in {"readDHTData", "readSoundLevel"} -> "SENSE"
              [] p = "controlLEDs" -> "ACTUATE"
              [] p = "log" -> "LOG"
              [] p \in ReporterPcs -> "REPORT"
              [] p = "delay" -> "SLEEP"
              [] OTHER -> "SETUP"
StageSucc(st) == CASE st = "SENSE" -> "ACTUATE"
                   [] st = "ACTUATE" -> "LOG"
                   [] st = "LOG" -> "REPORT"
                   [] st = "REPORT" -> "SLEEP"
                   [] st = "SLEEP" -> "SENSE"
                   [] OTHER -> "SENSE"

(* C1: after controlLEDs, the temperature LED is HIGH iff temperature >= 25.6, *)
(* the humidity LED is HIGH iff humidity > 40.0 and the sound LED is HIGH iff  *)
(* sound >= 200; the Reading (25.6, 40.0, 200) gives HIGH, LOW, HIGH.          *)
C1_Thresholds ==
    pc \in AfterActuate =>
        /\ \A p \in LedPins : pinLevel[p] \in {"HIGH", "LOW"}
        /\ (pinLevel[18] = "HIGH") <=> ((~temperature.nan) /\ temperature.v >= 2560)
        /\ (pinLevel[32] = "HIGH") <=> ((~humidity.nan) /\ humidity.v > 4000)
        /\ (pinLevel[33] = "HIGH") <=> (soundValue >= 200)
        /\ (Reading = <<F(2560), F(4000), 200>>
                => pinLevel = (18 :> "HIGH" @@ 32 :> "LOW" @@ 33 :> "HIGH"))

C1_Witness ==
    /\ pc = "log"
    /\ Reading = <<F(2560), F(4000), 200>>
    /\ pinLevel = (18 :> "HIGH" @@ 32 :> "LOW" @@ 33 :> "HIGH")

(* C2: when the guard of the Reporter finds the link down, the Reporter makes *)
(* no HTTP call, prints the skip message and returns; the LEDs are a function *)
(* of the Reading whatever the link state, and no Reporter step changes them. *)
C2_SkipState ==
    /\ (pc = "delay" /\ linkAtGuard = "disconnected") =>
            /\ opens = 0 /\ posts = 0 /\ closes = 0 /\ getStrings = 0
            /\ posted = <<>>
            /\ httpOpen = 0
            /\ LastLine = <<"Wi-Fi disconnected. Cannot send data.">>
    /\ (pc \in ReporterPcs \cup {"delay"}) =>
            pinLevel = (18 :> Level((~temperature.nan) /\ temperature.v >= 2560)
                        @@ 32 :> Level((~humidity.nan) /\ humidity.v > 4000)
                        @@ 33 :> Level(soundValue >= 200))

C2_DisconnectedFrame ==
    /\ []C2_SkipState
    /\ [][(pc \in ReporterPcs) => (pinLevel' = pinLevel /\ Reading' = Reading)]_vars
    /\ [][(pc = "sendData" /\ wifiStatus # "WL_CONNECTED" /\ pc' # pc)
            => (pc' = "delay" /\ linkAtGuard' = "disconnected")]_vars

C2_Witness ==
    /\ pc = "delay"
    /\ linkAtGuard = "disconnected"
    /\ wifiStatus = "WL_DISCONNECTED"
    /\ pinLevel[18] = "HIGH"
    /\ posted = <<>>

(* ---------- a JSON reader for flat objects with numeric members -------- *)
IsDigit(c) == c \in {"0", "1", "2", "3", "4", "5", "6", "7", "8", "9"}
DigitVal(c) == CHOOSE d \in 0..9 : DigitChars[d + 1] = c

\* the JSON number grammar (RFC 8259) as an automaton
JNumStep(st, c) ==
    CASE st = "start" /\ c = "-" -> "neg"
      [] st \in {"start", "neg"} /\ c = "0" -> "zero"
      [] st \in {"start", "neg"} /\ IsDigit(c) /\ c # "0" -> "int"
      [] st = "int" /\ IsDigit(c) -> "int"
      [] st \in {"zero", "int"} /\ c = "." -> "dot"
      [] st \in {"dot", "frac"} /\ IsDigit(c) -> "frac"
      [] st \in {"zero", "int", "frac"} /\ c \in {"e", "E"} -> "e"
      [] st = "e" /\ c \in {"+", "-"} -> "esign"
      [] st \in {"e", "esign", "exp"} /\ IsDigit(c) -> "exp"
      [] OTHER -> "reject"

RECURSIVE JNumRun(_, _, _)
JNumRun(str, i, st) == IF i > Len(str) THEN st
                       ELSE JNumRun(str, i + 1, JNumStep(st, str[i]))

IsJSONNumber(str) == JNumRun(str, 1, "start") \in {"zero", "int", "frac", "exp"}

\* index of the first occurrence of c in str, 0 if there is none
IndexOf(str, c) == IF \E i \in 1..Len(str) : str[i] = c
                   THEN CHOOSE i \in 1..Len(str) :
                            str[i] = c /\ \A j \in 1..(i - 1) : str[j] # c
                   ELSE 0

RECURSIVE Split(_, _)
Split(str, c) == LET i == IndexOf(str, c)
                 IN  IF i = 0 THEN <<str>>
                     ELSE <<SubSeq(str, 1, i - 1)>> \o Split(SubSeq(str, i + 1, Len(str)), c)

IsJSONObjectText(str) == Len(str) >= 2 /\ str[1] = "{" /\ str[Len(str)] = "}"
Members(str) == Split(SubSeq(str, 2, Len(str) - 1), ",")
MemberKey(m) == SubSeq(m, 1, IndexOf(m, ":") - 1)
MemberValue(m) == SubSeq(m, IndexOf(m, ":") + 1, Len(m))
IsJSONString(k) == /\ Len(k) >= 2 /\ k[1] = Q /\ k[Len(k)] = Q
                   /\ \A i \in 2..(Len(k) - 1) : k[i] \notin {Q, "\\"}
StringBody(k) == SubSeq(k, 2, Len(k) - 1)

RECURSIVE DigitsVal(_)
DigitsVal(ds) == IF Len(ds) = 0 THEN 0
                 ELSE 10 * DigitsVal(SubSeq(ds, 1, Len(ds) - 1)) + DigitVal(ds[Len(ds)])

\* text of the form -?digits.digit
IsOneDecimal(str) ==
    LET u == IF Len(str) > 0 /\ str[1] = "-" THEN Tail(str) ELSE str
    IN  /\ Len(u) >= 3
        /\ u[Len(u) - 1] = "."
        /\ \A i \in (1..Len(u)) \ {Len(u) - 1} : IsDigit(u[i])
\* its value in tenths
TenthsOf(str) ==
    LET neg == str[1] = "-"
        u == IF neg THEN Tail(str) ELSE str
        mag == 10 * DigitsVal(SubSeq(u, 1, Len(u) - 2)) + DigitVal(u[Len(u)])
    IN  IF neg THEN -mag ELSE mag
IsIntegerText(str) == Len(str) >= 1 /\ \A i \in 1..Len(str) : IsDigit(str[i])

\* the text is the float rounded to one decimal place
RendersFloat(str, f) ==
    /\ IsJSONNumber(str)
    /\ IsOneDecimal(str)
    /\ ~f.nan
    /\ 10 * TenthsOf(str) - f.v \in -5..5

ScenarioAPayload ==
    <<"{", Q, "t", "e", "m", "p", "e", "r", "a", "t", "u", "r", "e", Q, ":",
      "2", "6", ".", "0", ",",
      Q, "h", "u", "m", "i", "d", "i", "t", "y", Q, ":", "3", "5", ".", "0", ",",
      Q, "s", "o", "u", "n", "d", Q, ":", "1", "5", "0", "}">>

WellFormedPayload(body, t, h, snd) ==
    /\ IsJSONObjectText(body)
    /\ LET ms == Members(body)
       IN  /\ Len(ms) = 3
           /\ \A i \in 1..3 : /\ IndexOf(ms[i], ":") > 0
                              /\ IsJSONString(MemberKey(ms[i]))
                              /\ IsJSONNumber(MemberValue(ms[i]))
           /\ StringBody(MemberKey(ms[1])) = <<"t", "e", "m", "p", "e", "r", "a", "t", "u", "r", "e">>
           /\ StringBody(MemberKey(ms[2])) = <<"h", "u", "m", "i", "d", "i", "t", "y">>
           /\ StringBody(MemberKey(ms[3])) = <<"s", "o", "u", "n", "d">>
           /\ RendersFloat(MemberValue(ms[1]), t)
           /\ RendersFloat(MemberValue(ms[2]), h)
           /\ IsIntegerText(MemberValue(ms[3]))
           /\ DigitsVal(MemberValue(ms[3])) = snd

(* C3: every body POSTed is a JSON object with exactly the keys temperature,  *)
(* humidity and sound, numeric values, temperature and humidity with one      *)
(* decimal place, sound an integer, the values being those of this cycle's    *)
(* Reading; the Reading (26.0, 35.0, 150) gives the body of Scenario A.       *)
C3_PayloadIsJSON ==
    (posts > 0 /\ pc \in ReporterPcs \cup {"delay"}) =>
        /\ fresh = AllFields
        /\ WellFormedPayload(posted, temperature, humidity, soundValue)
        /\ (Reading = <<F(2600), F(3500), 150>> => posted = ScenarioAPayload)

\* the same statement for the Readings in which no float is NaN
C3_NumericReadings ==
    (posts > 0 /\ pc \in ReporterPcs \cup {"delay"}
        /\ ~temperature.nan /\ ~humidity.nan) =>
        /\ fresh = AllFields
        /\ WellFormedPayload(posted, temperature, humidity, soundValue)
        /\ (Reading = <<F(2600), F(3500), 150>> => posted = ScenarioAPayload)

C3_NumericWitness ==
    /\ posts = 1
    /\ Reading = <<F(2600), F(3500), 150>>
    /\ posted = ScenarioAPayload

(* C4: once setup has finished the loop runs SENSE, ACTUATE, LOG, REPORT,     *)
(* SLEEP in that order, forever: a step stays in its stage or moves to the    *)
(* next one, SENSE is left only with all three fields rewritten, the Reading  *)
(* used by the later stages is this cycle's, the loop is never left, and      *)
(* every stage is reached again and again.                                    *)
C4_LoopOrder ==
    /\ [][(pc \in LoopPcs) =>
            /\ pc' \in LoopPcs
            /\ Stage(pc') \in {Stage(pc), StageSucc(Stage(pc))}]_vars
    /\ [](pc \in {"controlLEDs"} \cup AfterActuate => fresh = AllFields)
    /\ [][(Stage(pc) = "SENSE" /\ Stage(pc') = "SENSE" /\ pc' # pc)
            => (temperature' \in TempValues /\ humidity' \in HumValues)]_vars
    /\ [][(Stage(pc') = "SENSE" /\ Stage(pc) # "SENSE")
            => (pc' = "readDHTData" /\ (pc = "pinMode" \/ (pc = "delay" /\ lastDelay' = 15000)))]_vars
    /\ \A st \in {"SENSE", "ACTUATE", "LOG", "REPORT", "SLEEP"} :
            (pc \in LoopPcs) ~> (Stage(pc) = st)

C4_Witness ==
    /\ pc = "readSoundLevel"
    /\ lastDelay = 15000
    /\ everActuated
    /\ linkAtGuard = "none"

(* C5: a cycle whose send is skipped (link down) or fails (code <= 0) logs    *)
(* the outcome, reaches SLEEP and then the next SENSE; the sketch is always   *)
(* at one of its statements, never in a halted state.                         *)
SendFailed ==
    /\ pc \in {"response", "http_end", "delay"}
    /\ \/ linkAtGuard = "disconnected"
       \/ (posts > 0 /\ httpResponseCode <= 0)

C5_FailuresAreLocal ==
    /\ [](pc \in SetupPcs \cup LoopPcs)
    /\ []((pc = "delay" /\ linkAtGuard = "disconnected")
            => LastLine = <<"Wi-Fi disconnected. Cannot send data.">>)
    /\ []((pc = "delay" /\ posts > 0 /\ httpResponseCode <= 0)
            => LastLine = <<"Error sending data: ", StringInt(httpResponseCode)>>)
    /\ (SendFailed ~> (pc = "delay" /\ SendFailed))
    /\ ((pc = "delay" /\ SendFailed) ~> (pc = "readSoundLevel" /\ fresh = {"temperature", "humidity"}))

C5_Witness ==
    /\ pc = "delay"
    /\ posts = 1
    /\ httpResponseCode = -1
    /\ LastLine = <<"Error sending data: ", <<"-", "1">> >>

(* C6: connectToWiFi leaves its poll loop only by returning, and only in a    *)
(* step where WiFi.status() is WL_CONNECTED; every poll waits 500 ms; while   *)
(* the status is never WL_CONNECTED it never returns, and once the status     *)
(* stays WL_CONNECTED it returns.                                             *)
C6_ConnectBlocks ==
    /\ [][(pc = "wifi_poll" /\ pc' # "wifi_poll")
            => (pc' = "initializeDHT" /\ wifiStatus = "WL_CONNECTED"
                /\ wifiStatus' = "WL_CONNECTED" /\ connectReturned')]_vars
    /\ [][(pc = "wifi_poll" /\ pc' = "wifi_poll" /\ lastDelay' # lastDelay)
            => lastDelay' = 500]_vars
    /\ [](connectReturned <=> pc \notin {"setup", "connectToWiFi", "wifi_poll"})
    /\ ([](wifiStatus # "WL_CONNECTED") => [](~connectReturned))
    /\ (<>[](wifiStatus = "WL_CONNECTED") => <>connectReturned)

C6_Witness ==
    /\ pc = "initializeDHT"
    /\ connectReturned
    /\ dots = MaxPolls
    /\ wifiStatus = "WL_CONNECTED"

C6_StallWitness ==
    /\ pc = "wifi_poll"
    /\ dots = MaxPolls
    /\ wifiStatus = "WL_IDLE_STATUS"

(* C7: when this cycle's Reading is identical to the previous cycle's,        *)
(* controlLEDs leaves the three LED levels as the previous cycle left them.   *)
C7_Idempotent ==
    [][(pc = "controlLEDs" /\ sameAsPrev /\ pc' = "log") => pinLevel' = pinLevel]_vars

C7_Witness ==
    /\ pc = "log"
    /\ sameAsPrev
    /\ pinLevel = (18 :> "HIGH" @@ 32 :> "LOW" @@ 33 :> "HIGH")

(* C8: a request begun by the Reporter is ended before the Reporter returns, *)
(* whether the response code is > 0 or <= 0: outside the Reporter no request  *)
(* is open and as many requests were ended as were begun.                     *)
C8_AlwaysClosed ==
    /\ (pc \notin {"POST", "response", "http_end"}) => (httpOpen = 0 /\ closes = opens)
    /\ (pc = "delay" /\ linkAtGuard = "connected") => (opens = 1 /\ closes = 1)
    /\ (pc \in {"POST", "response", "http_end"}) =>
            (linkAtGuard = "connected" /\ httpOpen = 1 /\ opens = 1 /\ closes = 0)

C8_Witness ==
    /\ pc = "delay"
    /\ linkAtGuard = "connected"
    /\ httpResponseCode = -11
    /\ opens = 1 /\ closes = 1 /\ httpOpen = 0

(* C9: with the link up at the guard the Reporter POSTs exactly once; a code  *)
(* > 0 has the body read and printed, a code <= 0 has the code printed as an  *)
(* error and the body not read; no iteration POSTs twice and the body POSTed  *)
(* is built from the Reading read in the same iteration.                      *)
C9_OnePost ==
    /\ posts <= 1
    /\ getStrings <= posts
    /\ (pc \in {"http_end", "delay"} /\ linkAtGuard = "connected") =>
            /\ posts = 1
            /\ Len(serial) = 2
            /\ IF httpResponseCode > 0
               THEN /\ getStrings = 1
                    /\ \E body \in ResponseBodies : LastLine = <<"Response: ", body>>
               ELSE /\ getStrings = 0
                    /\ LastLine = <<"Error sending data: ", StringInt(httpResponseCode)>>
    /\ (pc \in {"response", "http_end", "delay"} /\ posts > 0) =>
            /\ fresh = AllFields
            /\ posted = BuildPayload(temperature, humidity, soundValue)

C9_Witness ==
    /\ pc = "delay"
    /\ posts = 1
    /\ httpResponseCode = 0
    /\ getStrings = 0
    /\ LastLine = <<"Error sending data: ", <<"0">> >>

(* C10: until connectToWiFi has returned no sensor is set up or read, no LED  *)
(* pin is configured or written and nothing is sent; connectToWiFi is called  *)
(* once, in setup, and never again, also when the link is lost in the loop.   *)
C10_ConnectFirst ==
    /\ (~connectReturned) =>
            /\ dhtSetup = {}
            /\ \A p \in LedPins : pinModes[p] = "INPUT" /\ pinLevel[p] = "UNDRIVEN"
            /\ Reading = <<F(0), F(0), 0>>
            /\ fresh = {}
            /\ ~everActuated
            /\ opens = 0 /\ posts = 0 /\ posted = <<>>
    /\ connectCalls <= 1
    /\ (pc \notin {"setup", "connectToWiFi"}) => connectCalls = 1
    /\ (pc \in LoopPcs) => (connectReturned /\ dhtSetup = {4, 5}
                            /\ \A p \in LedPins : pinModes[p] = "OUTPUT")

C10_Witness ==
    /\ pc = "readDHTData"
    /\ linkAtGuard = "disconnected"
    /\ wifiStatus = "WL_DISCONNECTED"
    /\ connectCalls = 1

====
